---- MODULE Spec2Model ----
(***************************************************************************)
(* The JetStream error taxonomy of jsv2/jetstream/errors.go: the APIError  *)
(* and jsError structures, their methods, the registry of sentinel error   *)
(* values, and matching through errors.As / errors.Is.                     *)
(*                                                                         *)
(* Go values are modelled structurally.  A pointer is a record that        *)
(* carries the fields of the object it points to and an allocation tag     *)
(* "alloc": 0 for a package-level variable, 1..MaxAlloc for an object      *)
(* built at run time.  Two pointers are the same pointer exactly when the  *)
(* records are equal.  All objects are immutable after construction.       *)
(***************************************************************************)
EXTENDS Integers, Sequences, FiniteSets, TLC

VARIABLES x, y, op, ret

vars == <<x, y, op, ret>>

(***************************************************************************)
(* Bounds of the model.                                                    *)
(***************************************************************************)
\* distinct run-time allocations of each dynamically built error
MaxAlloc == 1
\* layers of higher-layer errors wrapped around an error of this package
MaxWrap == 1

(***************************************************************************)
(* ErrorCode constants (const block).                                      *)
(***************************************************************************)
JSErrCodeJetStreamNotEnabledForAccount == 10039
JSErrCodeJetStreamNotEnabled == 10076
JSErrCodeStreamNotFound == 10059
JSErrCodeStreamNameInUse == 10058
JSErrCodeConsumerNotFound == 10014
JSErrCodeConsumerNameExists == 10013
JSErrCodeConsumerAlreadyExists == 10105
JSErrCodeMessageNotFound == 10037
JSErrCodeBadRequest == 10003

(***************************************************************************)
(* Values.                                                                 *)
(***************************************************************************)
\* (*APIError)(nil)
NilAPIError ==
  [nil |-> TRUE, alloc |-> 0, Code |-> 0, ErrorCode |-> 0, Description |-> ""]

\* &APIError{Code: code, ErrorCode: ec, Description: d}
APIError(a, code, ec, d) ==
  [nil |-> FALSE, alloc |-> a, Code |-> code, ErrorCode |-> ec, Description |-> d]

\* &jsError{apiErr: p, message: m}
jsError(a, p, m) == [alloc |-> a, apiErr |-> p, message |-> m]

\* The values of the interface type error: the nil interface, a *APIError
\* (possibly a nil pointer), a *jsError, the *errorString of errors.New, and
\* an error of a higher layer whose Unwrap returns the error it wraps.
NilError == [kind |-> "nil"]
APIErr(p) == [kind |-> "api", api |-> p]
JsErr(j) == [kind |-> "js", js |-> j]
StrErr(s) == [kind |-> "str", text |-> s]
WrapErr(e) == [kind |-> "wrap", inner |-> e]

\* What a call returns: a bool, a string, an error, a *APIError, or a panic.
NoRet ==
  [status |-> "none", type |-> "", bool |-> FALSE, str |-> "",
   err |-> NilError, ptr |-> NilAPIError]
Panic == [NoRet EXCEPT !.status = "panic"]
RetBool(b) == [NoRet EXCEPT !.status = "ok", !.type = "bool", !.bool = b]
RetStr(s) == [NoRet EXCEPT !.status = "ok", !.type = "string", !.str = s]
RetErr(e) == [NoRet EXCEPT !.status = "ok", !.type = "error", !.err = e]
RetPtr(p) == [NoRet EXCEPT !.status = "ok", !.type = "ptr", !.ptr = p]

(***************************************************************************)
(* The sentinel registry (var block).  A broker-reported sentinel is a     *)
(* *jsError that embeds a *APIError and has an empty message.              *)
(***************************************************************************)
APISentinel(ec, d, code) == JsErr(jsError(0, APIError(0, code, ec, d), ""))
ClientSentinel(m) == JsErr(jsError(0, NilAPIError, m))

ErrJetStreamNotEnabled ==
  APISentinel(JSErrCodeJetStreamNotEnabled, "jetstream not enabled", 503)
ErrJetStreamNotEnabledForAccount ==
  APISentinel(JSErrCodeJetStreamNotEnabledForAccount,
              "jetstream not enabled for account", 503)
ErrStreamNotFound ==
  APISentinel(JSErrCodeStreamNotFound, "stream not found", 404)
\* a slip that reuses the sub-code of ErrStreamNotFound
ErrStreamNameAlreadyInUse_ReusedCode ==
  APISentinel(JSErrCodeStreamNotFound, "stream name already in use", 400)
ErrStreamNameAlreadyInUse ==
  APISentinel(JSErrCodeStreamNameInUse, "stream name already in use", 400)
ErrConsumerNotFound ==
  APISentinel(JSErrCodeConsumerNotFound, "consumer not found", 404)
ErrMsgNotFound ==
  APISentinel(JSErrCodeMessageNotFound, "message not found", 404)
ErrBadRequest ==
  APISentinel(JSErrCodeBadRequest, "bad request", 400)

ErrConsumerNameAlreadyInUse == ClientSentinel("consumer name already in use")
ErrInvalidJSAck == ClientSentinel("invalid jetstream publish response")
ErrStreamNameRequired == ClientSentinel("stream name is required")
ErrConsumerNameRequired == ClientSentinel("consumer name is required")
ErrMsgAlreadyAckd == ClientSentinel("message was already acknowledged")
ErrNoStreamResponse == ClientSentinel("no response from stream")
ErrNotJSMessage == ClientSentinel("not a jetstream message")
ErrInvalidStreamName == ClientSentinel("invalid stream name")
ErrInvalidConsumerName == ClientSentinel("invalid consumer name")
ErrNoMessages == ClientSentinel("no messages")
ErrHandlerRequired == ClientSentinel("handler cannot be empty")
ErrEndOfData == StrErr("nats: end of data reached")
ErrNoHeartbeat ==
  ClientSentinel("no heartbeat received, canceling subscription")
ErrConsumerHasActiveSubscription ==
  ClientSentinel("consumer has active subscription")
ErrMsgNotBound ==
  ClientSentinel("message is not bound to subscription/connection")
ErrMsgNoReply == ClientSentinel("message does not have a reply")
ErrMsgDeleteUnsuccessful == ClientSentinel("message deletion unsuccessful")
ErrAsyncPublishReplySubjectSet ==
  ClientSentinel("reply subject should be empty")
ErrTooManyStalledMsgs ==
  ClientSentinel("stalled with too many outstanding async published messages")

\* the sentinels by name, one entry per variable of the var block
APISentinels ==
  [ErrJetStreamNotEnabled |-> ErrJetStreamNotEnabled,
   ErrJetStreamNotEnabledForAccount |-> ErrJetStreamNotEnabledForAccount,
   ErrStreamNotFound |-> ErrStreamNotFound,
   ErrStreamNameAlreadyInUse |-> ErrStreamNameAlreadyInUse,
   ErrConsumerNotFound |-> ErrConsumerNotFound,
   ErrMsgNotFound |-> ErrMsgNotFound,
   ErrBadRequest |-> ErrBadRequest]

ClientSentinels ==
  [ErrConsumerNameAlreadyInUse |-> ErrConsumerNameAlreadyInUse,
   ErrInvalidJSAck |-> ErrInvalidJSAck,
   ErrStreamNameRequired |-> ErrStreamNameRequired,
   ErrConsumerNameRequired |-> ErrConsumerNameRequired,
   ErrMsgAlreadyAckd |-> ErrMsgAlreadyAckd,
   ErrNoStreamResponse |-> ErrNoStreamResponse,
   ErrNotJSMessage |-> ErrNotJSMessage,
   ErrInvalidStreamName |-> ErrInvalidStreamName,
   ErrInvalidConsumerName |-> ErrInvalidConsumerName,
   ErrNoMessages |-> ErrNoMessages,
   ErrHandlerRequired |-> ErrHandlerRequired,
   ErrEndOfData |-> ErrEndOfData,
   ErrNoHeartbeat |-> ErrNoHeartbeat,
   ErrConsumerHasActiveSubscription |-> ErrConsumerHasActiveSubscription,
   ErrMsgNotBound |-> ErrMsgNotBound,
   ErrMsgNoReply |-> ErrMsgNoReply,
   ErrMsgDeleteUnsuccessful |-> ErrMsgDeleteUnsuccessful,
   ErrAsyncPublishReplySubjectSet |-> ErrAsyncPublishReplySubjectSet,
   ErrTooManyStalledMsgs |-> ErrTooManyStalledMsgs]

Range(f) == {f[n] : n \in DOMAIN f}
Sentinels == Range(APISentinels) \cup Range(ClientSentinels)

(***************************************************************************)
(* Formatting: fmt.Sprintf's %d of an ErrorCode is its decimal numeral.    *)
(***************************************************************************)
Digit == <<"0", "1", "2", "3", "4", "5", "6", "7", "8", "9">>

RECURSIVE FormatDecimal(_)
FormatDecimal(n) ==
  IF n < 10 THEN Digit[n + 1]
  ELSE FormatDecimal(n \div 10) \o Digit[(n % 10) + 1]

(***************************************************************************)
(* Methods of *APIError and *jsError.                                      *)
(***************************************************************************)
\* a slip that prints the status code
APIError_Error_StatusCode(e) ==
  IF e.nil THEN Panic
  ELSE RetStr("nats: API error " \o FormatDecimal(e.Code) \o ": "
              \o e.Description)

\* func (e *APIError) Error() string; reading a field of a nil e panics
APIError_Error(e) ==
  IF e.nil THEN Panic
  ELSE RetStr("nats: API error " \o FormatDecimal(e.ErrorCode) \o ": "
              \o e.Description)

\* func (e *APIError) APIError() *APIError
APIError_APIError(e) == RetPtr(e)

\* func (err *jsError) APIError() *APIError
jsError_APIError(j) == RetPtr(j.apiErr)

\* a slip that delegates whenever a *APIError is embedded
jsError_Error_AlwaysDelegates(j) ==
  IF ~j.apiErr.nil THEN APIError_Error(j.apiErr)
  ELSE RetStr("nats: " \o j.message)

\* func (err *jsError) Error() string
jsError_Error(j) ==
  IF ~j.apiErr.nil /\ j.apiErr.Description # ""
  THEN APIError_Error(j.apiErr)
  ELSE RetStr("nats: " \o j.message)

\* a slip that returns the field as it is: a nil *APIError inside a
\* non-nil error
jsError_Unwrap_TypedNil(j) == APIErr(j.apiErr)

\* a slip that never exposes the embedded *APIError
jsError_Unwrap_None(j) == NilError

\* func (err *jsError) Unwrap() error
jsError_Unwrap(j) ==
  IF j.apiErr.nil THEN NilError ELSE APIErr(j.apiErr)

(***************************************************************************)
(* The errors package as this file uses it.                                *)
(***************************************************************************)
\* errors.Unwrap: the result of err's Unwrap method if it has one, else nil
errorsUnwrap(err) ==
  CASE err.kind = "js" -> jsError_Unwrap(err.js)
    [] err.kind = "wrap" -> err.inner
    [] OTHER -> NilError

\* errors.As(err, &aerr) with aerr a *APIError: the first error of err's
\* chain whose dynamic type is *APIError is stored in aerr, a nil pointer of
\* that type included
RECURSIVE errorsAs(_)
errorsAs(err) ==
  IF err.kind = "nil" THEN [ok |-> FALSE, aerr |-> NilAPIError]
  ELSE IF err.kind = "api" THEN [ok |-> TRUE, aerr |-> err.api]
  ELSE errorsAs(errorsUnwrap(err))

\* a slip that leaves out the nil receiver check
APIError_Is_NoNilCheck(e, err) ==
  LET as == errorsAs(err) IN
    IF ~as.ok THEN RetBool(as.ok)
    ELSE IF e.nil \/ as.aerr.nil THEN Panic
    ELSE RetBool(e.ErrorCode = as.aerr.ErrorCode)

\* a slip that tests for inequality
APIError_Is_Inverted(e, err) ==
  IF e.nil THEN RetBool(FALSE)
  ELSE LET as == errorsAs(err) IN
    IF ~as.ok THEN RetBool(as.ok)
    ELSE IF as.aerr.nil THEN Panic
    ELSE RetBool(e.ErrorCode # as.aerr.ErrorCode)

\* a slip that asserts the type of err instead of walking its chain
APIError_Is_NoWalk(e, err) ==
  IF e.nil THEN RetBool(FALSE)
  ELSE IF err.kind # "api" THEN RetBool(FALSE)
  ELSE IF err.api.nil THEN Panic
  ELSE RetBool(e.ErrorCode = err.api.ErrorCode)

\* func (e *APIError) Is(err error) bool; reading a field of a nil aerr
\* panics
APIError_Is(e, err) ==
  IF e.nil THEN RetBool(FALSE)
  ELSE LET as == errorsAs(err) IN
    IF ~as.ok THEN RetBool(as.ok)
    ELSE IF as.aerr.nil THEN Panic
    ELSE RetBool(e.ErrorCode = as.aerr.ErrorCode)

\* the walk of errors.Is: err == target, then err's Is method if it has
\* one, then Unwrap
RECURSIVE errorsIsWalk(_, _, _)
errorsIsWalk(err, target, isComparable) ==
  IF isComparable /\ err = target THEN RetBool(TRUE)
  ELSE LET viaIs == IF err.kind = "api" THEN APIError_Is(err.api, target)
                    ELSE RetBool(FALSE)
           next == errorsUnwrap(err)
       IN IF viaIs.status = "panic" THEN Panic
          ELSE IF viaIs.bool THEN RetBool(TRUE)
          ELSE IF next.kind = "nil" THEN RetBool(FALSE)
          ELSE errorsIsWalk(next, target, isComparable)

\* a variant that takes the error types for not comparable
errorsIs_NoIdentity(err, target) ==
  IF target.kind = "nil" THEN RetBool(err = target)
  ELSE errorsIsWalk(err, target, FALSE)

\* errors.Is(err, target); every error type here is comparable
errorsIs(err, target) ==
  IF target.kind = "nil" THEN RetBool(err = target)
  ELSE errorsIsWalk(err, target, TRUE)

(***************************************************************************)
(* The errors a caller can hold: the sentinels, errors built at run time   *)
(* (an APIError decoded from a response, a jsError with or without an      *)
(* embedded APIError and a local message), nil, a nil *APIError, and       *)
(* higher-layer errors wrapping any of them.                               *)
(***************************************************************************)
Statuses == {400, 404}
ErrorCodes == {JSErrCodeStreamNotFound, JSErrCodeConsumerNameExists}
Descriptions == {"", "stream not found", "stream not found: xyz"}
Messages == {"", "no response from stream"}

DynAPIErrors ==
  {APIError(a, c, ec, d) :
     a \in 1..MaxAlloc, c \in Statuses, ec \in ErrorCodes, d \in Descriptions}

DynJsErrors ==
  {jsError(p.alloc, p, m) : p \in DynAPIErrors, m \in Messages}
  \cup {jsError(a, NilAPIError, m) : a \in 1..MaxAlloc, m \in Messages}

\* the *APIError values a caller can hold: those built at run time, those
\* the broker-reported sentinels return from APIError(), and a nil pointer
APIErrorPointers ==
  DynAPIErrors \cup {s.js.apiErr : s \in Range(APISentinels)}
               \cup {NilAPIError}

PackageErrors ==
  Sentinels \cup {APIErr(p) : p \in APIErrorPointers}
            \cup {JsErr(j) : j \in DynJsErrors}

RECURSIVE Wrapped(_)
Wrapped(n) ==
  IF n = 0 THEN PackageErrors
  ELSE Wrapped(n - 1) \cup {WrapErr(e) : e \in Wrapped(n - 1)}

Errors == {NilError} \cup Wrapped(MaxWrap)

(***************************************************************************)
(* A caller holds two errors x and y and calls the methods of x, or        *)
(* errors.Is(x, y); op names the last call and ret is what it returned.    *)
(***************************************************************************)
Init ==
  /\ x \in Errors
  /\ y \in Errors
  /\ op = "none"
  /\ ret = NoRet

Call(name, result) ==
  /\ op' = name
  /\ ret' = result
  /\ UNCHANGED <<x, y>>

\* x.(*APIError).Error()
CallAPIErrorError ==
  /\ x.kind = "api"
  /\ Call("APIError.Error", APIError_Error(x.api))

\* x.(*APIError).APIError()
CallAPIErrorAPIError ==
  /\ x.kind = "api"
  /\ Call("APIError.APIError", APIError_APIError(x.api))

\* x.(*APIError).Is(y)
CallAPIErrorIs ==
  /\ x.kind = "api"
  /\ Call("APIError.Is", APIError_Is(x.api, y))

\* x.(*jsError).APIError()
CalljsErrorAPIError ==
  /\ x.kind = "js"
  /\ Call("jsError.APIError", jsError_APIError(x.js))

\* x.(*jsError).Error()
CalljsErrorError ==
  /\ x.kind = "js"
  /\ Call("jsError.Error", jsError_Error(x.js))

\* x.(*jsError).Unwrap()
CalljsErrorUnwrap ==
  /\ x.kind = "js"
  /\ Call("jsError.Unwrap", RetErr(jsError_Unwrap(x.js)))

\* errors.Is(x, y)
CallErrorsIs ==
  /\ x \in Errors /\ y \in Errors
  /\ Call("errors.Is", errorsIs(x, y))

Next ==
  \/ CallAPIErrorError
  \/ CallAPIErrorAPIError
  \/ CallAPIErrorIs
  \/ CalljsErrorAPIError
  \/ CalljsErrorError
  \/ CalljsErrorUnwrap
  \/ CallErrorsIs

Spec == Init /\ [][Next]_vars

(***************************************************************************)
(* Vocabulary of the properties.                                           *)
(***************************************************************************)
\* the BrokerError an error carries: the first *APIError object on its
\* unwrap chain, as a set of at most one element
RECURSIVE Carried(_)
Carried(e) ==
  CASE e.kind = "api" -> IF e.api.nil THEN {} ELSE {e.api}
    [] e.kind = "js" -> IF e.js.apiErr.nil THEN {} ELSE {e.js.apiErr}
    [] e.kind = "wrap" -> Carried(e.inner)
    [] OTHER -> {}

\* errors whose chain ends in a nil *APIError
RECURSIVE EndsInNilPointer(_)
EndsInNilPointer(e) ==
  CASE e.kind = "api" -> e.api.nil
    [] e.kind = "wrap" -> EndsInNilPointer(e.inner)
    [] OTHER -> FALSE

\* the example values of the specification
DynStreamNotFound == APIError(1, 404, JSErrCodeStreamNotFound, "stream not found")
DynStreamNotFoundXyz ==
  APIError(1, 404, JSErrCodeStreamNotFound, "stream not found: xyz")

(***************************************************************************)
(* C1.  For a non-nil receiver r and every candidate c, r.Is(c) returns    *)
(* false when c carries no BrokerError and otherwise returns true exactly  *)
(* when r's ErrorCode equals the carried BrokerError's ErrorCode; status   *)
(* code and description play no part.                                      *)
(***************************************************************************)
C1_MatchesBySubCodeAlone ==
  (op = "APIError.Is" /\ ~x.api.nil) =>
    ret = RetBool(\E b \in Carried(y) : b.ErrorCode = x.api.ErrorCode)

\* the same statement for the candidates whose chain does not end in a nil
\* *APIError: the only candidates on which C1 fails are those of C4
C1_ExceptNilPointerCandidates ==
  (op = "APIError.Is" /\ ~x.api.nil /\ ~EndsInNilPointer(y)) =>
    ret = RetBool(\E b \in Carried(y) : b.ErrorCode = x.api.ErrorCode)

(***************************************************************************)
(* C4.  Is has no failure mode: for every receiver and every candidate it  *)
(* returns a boolean and does not panic.                                   *)
(***************************************************************************)
C4_IsNeverPanics ==
  op = "APIError.Is" => (ret.status = "ok" /\ ret.type = "bool")

(***************************************************************************)
(* C5.  With a nil receiver, Is returns false for every candidate, also    *)
(* for one that carries a BrokerError or is a nil *APIError.               *)
(***************************************************************************)
C5_NilReceiverIsFalse ==
  (op = "APIError.Is" /\ x.api.nil) => ret = RetBool(FALSE)

C5_Witness ==
  /\ op = "APIError.Is"
  /\ x = APIErr(NilAPIError)
  /\ y = ErrStreamNotFound
  /\ ret = RetBool(FALSE)

(***************************************************************************)
(* C2.  The answer does not depend on the shape in which a BrokerError b   *)
(* arrives: bare, embedded in a jsError with or without a message, or      *)
(* under a higher-layer error around that jsError.  Matching such an       *)
(* error against a sentinel with errors.Is, or calling Is on the           *)
(* sentinel's APIError with it, compares the ErrorCode of b, the first     *)
(* BrokerError on the unwrap chain, and so answers as for the bare b.      *)
(***************************************************************************)
C2_ShapeIndependent ==
  \A b \in Carried(IF op = "errors.Is" THEN x ELSE y) :
    /\ (op = "errors.Is" /\ y \in Sentinels) =>
         /\ ret = RetBool(\E t \in Carried(y) : t.ErrorCode = b.ErrorCode)
         /\ ret = errorsIs(APIErr(b), y)
    /\ (op = "APIError.Is" /\ JsErr(jsError(0, x.api, "")) \in Sentinels) =>
         /\ ret = RetBool(x.api.ErrorCode = b.ErrorCode)
         /\ ret = APIError_Is(x.api, APIErr(b))

\* two levels deep: a higher-layer error around a jsError around the
\* BrokerError matches the stream-not-found sentinel
C2_Witness ==
  /\ op = "errors.Is"
  /\ x = WrapErr(JsErr(jsError(1, DynStreamNotFoundXyz,
                               "no response from stream")))
  /\ y = ErrStreamNotFound
  /\ ret = RetBool(TRUE)

(***************************************************************************)
(* C3.  Matching is reflexive over the whole registry: errors.Is(s, s) is  *)
(* true for every sentinel s, client-only ones and ErrEndOfData included,  *)
(* and for a broker-reported s the Is method of its APIError accepts s.    *)
(***************************************************************************)
C3_Reflexive ==
  /\ (op = "errors.Is" /\ x \in Sentinels /\ y = x) => ret = RetBool(TRUE)
  /\ (op = "APIError.Is" /\ y \in Range(APISentinels)
        /\ x = APIErr(y.js.apiErr)) => ret = RetBool(TRUE)

C3_Witness ==
  /\ op = "errors.Is"
  /\ x = ErrHandlerRequired
  /\ y = ErrHandlerRequired
  /\ ret = RetBool(TRUE)

(***************************************************************************)
(* C6.  For every jsError e: APIError() is nil exactly when e embeds no    *)
(* APIError, Unwrap() is the nil error in exactly that case, and otherwise *)
(* both return the embedded APIError itself.  A client-only sentinel       *)
(* yields nil from both.                                                   *)
(***************************************************************************)
C6_APIErrorAndUnwrap ==
  /\ op = "jsError.APIError" =>
       /\ ret = RetPtr(x.js.apiErr)
       /\ ret.ptr.nil <=> Carried(x) = {}
       /\ ~ret.ptr.nil => Carried(x) = {ret.ptr}
  /\ op = "jsError.Unwrap" =>
       /\ ret.status = "ok" /\ ret.type = "error"
       /\ ret.err = NilError <=> Carried(x) = {}
       /\ ret.err # NilError => (ret.err = APIErr(x.js.apiErr)
                                  /\ Carried(x) = {ret.err.api})
  /\ x \in Range(ClientSentinels) =>
       /\ op = "jsError.APIError" => ret = RetPtr(NilAPIError)
       /\ op = "jsError.Unwrap" => ret = RetErr(NilError)

C6_Witness ==
  /\ op = "jsError.Unwrap"
  /\ x = ErrHandlerRequired
  /\ ret = RetErr(NilError)

(***************************************************************************)
(* C7.  Two different broker-reported sentinels never have the same        *)
(* ErrorCode, so errors.Is never matches one against the other.            *)
(***************************************************************************)
C7_DistinctSubCodes ==
  \A n, m \in DOMAIN APISentinels :
    (n # m /\ x = APISentinels[n] /\ y = APISentinels[m]) =>
      /\ x.js.apiErr.ErrorCode # y.js.apiErr.ErrorCode
      /\ op = "errors.Is" => ret = RetBool(FALSE)

C7_Witness ==
  /\ op = "errors.Is"
  /\ x = ErrStreamNotFound
  /\ y = ErrStreamNameAlreadyInUse
  /\ ret = RetBool(FALSE)

(***************************************************************************)
(* C8.  Error() of an APIError is "nats: API error <N>: <description>"     *)
(* with N the decimal ErrorCode, not the status code: 404, 10059, "stream  *)
(* not found" gives "nats: API error 10059: stream not found", and the     *)
(* text is the same whatever the status code.                              *)
(***************************************************************************)
\* the decimal numerals of the ErrorCode constants, written out
Numeral(ec) ==
  CASE ec = JSErrCodeJetStreamNotEnabledForAccount -> "10039"
    [] ec = JSErrCodeJetStreamNotEnabled -> "10076"
    [] ec = JSErrCodeStreamNotFound -> "10059"
    [] ec = JSErrCodeStreamNameInUse -> "10058"
    [] ec = JSErrCodeConsumerNotFound -> "10014"
    [] ec = JSErrCodeConsumerNameExists -> "10013"
    [] ec = JSErrCodeConsumerAlreadyExists -> "10105"
    [] ec = JSErrCodeMessageNotFound -> "10037"
    [] ec = JSErrCodeBadRequest -> "10003"

C8_APIErrorText ==
  (op = "APIError.Error" /\ ~x.api.nil) =>
    /\ ret = RetStr("nats: API error " \o Numeral(x.api.ErrorCode) \o ": "
                    \o x.api.Description)
    /\ \A c \in Statuses \cup {503} :
         APIError_Error([x.api EXCEPT !.Code = c]) = ret
    /\ x = APIErr(DynStreamNotFound) =>
         ret = RetStr("nats: API error 10059: stream not found")

C8_Witness ==
  /\ op = "APIError.Error"
  /\ x = APIErr(DynStreamNotFound)
  /\ x.api.Code = 404
  /\ ret = RetStr("nats: API error 10059: stream not found")

(***************************************************************************)
(* C9.  Error() of a jsError is "nats: <message>" when no APIError is      *)
(* embedded or the embedded one has an empty description; with a           *)
(* non-empty description it is the Error() of the embedded APIError and    *)
(* the message is not shown, so a broker-reported sentinel reads as its    *)
(* APIError does.                                                          *)
(***************************************************************************)
C9_jsErrorText ==
  op = "jsError.Error" =>
    /\ Carried(x) = {} => ret = RetStr("nats: " \o x.js.message)
    /\ \A b \in Carried(x) :
         /\ b.Description # "" =>
              ret = RetStr("nats: API error " \o Numeral(b.ErrorCode) \o ": "
                           \o b.Description)
         /\ b.Description = "" => ret = RetStr("nats: " \o x.js.message)
    /\ x \in Range(APISentinels) => ret = APIError_Error(x.js.apiErr)
    /\ x = ErrStreamNotFound =>
         ret = RetStr("nats: API error 10059: stream not found")
    /\ x = ErrHandlerRequired => ret = RetStr("nats: handler cannot be empty")

\* an embedded APIError with an empty description: the message is shown
C9_Witness ==
  /\ op = "jsError.Error"
  /\ x = JsErr(jsError(1, APIError(1, 404, JSErrCodeStreamNotFound, ""),
                       "no response from stream"))
  /\ ret = RetStr("nats: no response from stream")

(***************************************************************************)
(* C10.  Over bare APIErrors, jsErrors embedding an APIError and pure      *)
(* client errors, errors.Is is symmetric and transitive; a pure client     *)
(* error matches only itself and never matches an error that carries an    *)
(* APIError, in either direction.                                          *)
(***************************************************************************)
Shapes == {e \in PackageErrors : e.kind = "api" => ~e.api.nil}
Pure(e) == Carried(e) = {}

C10_SymmetricTransitive ==
  (op = "errors.Is" /\ x \in Shapes /\ y \in Shapes) =>
    /\ ret.status = "ok" /\ ret.type = "bool"
    /\ errorsIs(y, x) = ret
    /\ ret.bool =>
         \A z \in Shapes : errorsIs(y, z) = RetBool(TRUE)
                             => errorsIs(x, z) = RetBool(TRUE)
    /\ (Pure(x) \/ Pure(y)) => (ret.bool <=> x = y)
    /\ Pure(x) # Pure(y) => ~ret.bool

\* a decoded APIError matches the sentinel and the sentinel matches it
C10_Witness ==
  /\ op = "errors.Is"
  /\ x = APIErr(DynStreamNotFoundXyz)
  /\ y = ErrStreamNotFound
  /\ ret = RetBool(TRUE)
  /\ errorsIs(y, x) = RetBool(TRUE)

====
